---------------------------- MODULE Spec2Model ----------------------------
(***************************************************************************)
(* A model of pulsar's stream transports (pulsar/async/stream.py):         *)
(* SocketStreamTransport, SocketStreamSslTransport, create_connection and  *)
(* start_serving.                                                          *)
(*                                                                         *)
(* The transport is one record of fields, kept in one variable per field.  *)
(* Every method of the source is an operator from a transport record to    *)
(* the set of records the method can leave behind, one element per outcome *)
(* of the socket calls it makes and per reaction of the protocol to the    *)
(* callbacks it issues.  An action of the specification is one top-level    *)
(* call: a method called by the application, or a callback run by the      *)
(* event loop.                                                             *)
(***************************************************************************)
EXTENDS Integers, Sequences, FiniteSets, TLC

VARIABLES
    kind,                \* "plain" (SocketStreamTransport) or "ssl"
    sock,                \* the transport's socket: "open", "closed", or
                         \* "unowned" (open, but the constructor raised)
    closing,             \* _closing
    write_buffer,        \* _write_buffer: a sequence of chunks
    consecutive_writes,  \* _consecutive_writes
    paused_reading,      \* _paused_reading
    paused_writing,      \* _paused_writing
    read_buffer,         \* _read_buffer: [none |-> BOOLEAN, list |-> chunks]
    reader,              \* the callback add_reader registered for the socket
    writer,              \* the callback add_writer registered for the socket
    handshake_reading,   \* _handshake_reading
    handshake_writing,   \* _handshake_writing
    soon,                \* the event loop's call_soon queue
    hs_done,             \* the TLS engine has completed its handshake
    peer_eof,            \* the peer has shut its side down
    calls,               \* history: the protocol callbacks made, in order
    written,             \* history: the bytes of the write calls that returned
    sent,                \* history: the bytes the socket accepted
    nrecv,               \* history: number of chunks received so far
    nreact,              \* history: re-entrant calls made by the protocol
    paused_arrived,      \* history: chunks received since the last pause
    flushed,             \* history: chunks the last resume_reading delivered
    resumed,             \* history: a resume_reading completed the cycle
    burst,               \* history: writes made while a write was draining
    hs_failed,           \* history: a handshake attempt raised a fatal error
    raised,              \* history: the exception the last call raised
    aborted,             \* history: abort was called
    deferred,            \* history: close() found the write queue non-empty
    fault,               \* history: how the last drain loop ended, if it did
                         \* not empty the queue: "stall" or the error raised
    fault_errno,         \* history: the errno of the error in fault
    recv_error,          \* history: what the last recv raised, see RecvError
    conn,                \* the connector (create_connection), see below
    srv,                 \* the listener (start_serving), see below
    pending,             \* the connect attempts (sock_connect), see below
    acc,                 \* the accept callback (sock_accept_connection)
    http                 \* one response of the HTTP client with digest auth

tvars == <<kind, sock, closing, write_buffer, consecutive_writes,
           paused_reading, paused_writing, read_buffer, reader, writer,
           handshake_reading, handshake_writing, soon, hs_done, peer_eof,
           calls, written, sent, nrecv, nreact, paused_arrived, flushed,
           resumed, burst, hs_failed, raised, aborted, deferred,
           fault, fault_errno, recv_error>>

vars == <<tvars, conn, srv, pending, acc, http>>

-----------------------------------------------------------------------------
(* Bounds of the model *)

MaxBytes == 3       \* bytes given to write, over all write calls
MaxRecv == 2        \* chunks the peer sends
MaxReact == 1       \* re-entrant calls the protocol makes from its callbacks
MaxCand == 3        \* remote addresses the resolver returns
MaxLocal == 2       \* local addresses the resolver returns
MaxInfos == 2       \* addresses the resolver returns for a listener
MaxSocks == 2       \* pre-built sockets given to a listener
MaxFds == 3         \* sockets with a connect attempt on one event loop
MaxRequests == 3    \* requests issued for one HTTP response
MaxNonce == 2       \* nonces a server hands out

(* Program constants *)

MAX_CONSECUTIVE_WRITES == 500
WRITE_BUFFER_MAX_SIZE == 2    \* scaled down: data of 3 bytes is split
SSLV3_ALERT_CERTIFICATE_UNKNOWN == 1
SSL3_WRITE_PENDING == 1
SSL_ERROR_WANT_READ == 2
SSL_ERROR_WANT_WRITE == 3
EWOULDBLOCK == 11
ESHUTDOWN == 108
EPERM == 1
NUMBER_ACCEPTS == 3             \* scaled down

-----------------------------------------------------------------------------
(* The transport as a record *)

T == [kind |-> kind, sock |-> sock, closing |-> closing,
      write_buffer |-> write_buffer,
      consecutive_writes |-> consecutive_writes,
      paused_reading |-> paused_reading, paused_writing |-> paused_writing,
      read_buffer |-> read_buffer, reader |-> reader, writer |-> writer,
      handshake_reading |-> handshake_reading,
      handshake_writing |-> handshake_writing,
      soon |-> soon, hs_done |-> hs_done, peer_eof |-> peer_eof,
      calls |-> calls, written |-> written, sent |-> sent, nrecv |-> nrecv,
      nreact |-> nreact, paused_arrived |-> paused_arrived,
      flushed |-> flushed, resumed |-> resumed, burst |-> burst,
      hs_failed |-> hs_failed, raised |-> raised, aborted |-> aborted,
      deferred |-> deferred, fault |-> fault, fault_errno |-> fault_errno,
      recv_error |-> recv_error]

Commit(t) ==
    /\ kind' = t.kind
    /\ sock' = t.sock
    /\ closing' = t.closing
    /\ write_buffer' = t.write_buffer
    /\ consecutive_writes' = t.consecutive_writes
    /\ paused_reading' = t.paused_reading
    /\ paused_writing' = t.paused_writing
    /\ read_buffer' = t.read_buffer
    /\ reader' = t.reader
    /\ writer' = t.writer
    /\ handshake_reading' = t.handshake_reading
    /\ handshake_writing' = t.handshake_writing
    /\ soon' = t.soon
    /\ hs_done' = t.hs_done
    /\ peer_eof' = t.peer_eof
    /\ calls' = t.calls
    /\ written' = t.written
    /\ sent' = t.sent
    /\ nrecv' = t.nrecv
    /\ nreact' = t.nreact
    /\ paused_arrived' = t.paused_arrived
    /\ flushed' = t.flushed
    /\ resumed' = t.resumed
    /\ burst' = t.burst
    /\ hs_failed' = t.hs_failed
    /\ raised' = t.raised
    /\ aborted' = t.aborted
    /\ deferred' = t.deferred
    /\ fault' = t.fault
    /\ fault_errno' = t.fault_errno
    /\ recv_error' = t.recv_error

Start(t) ==
    /\ kind = t.kind
    /\ sock = t.sock
    /\ closing = t.closing
    /\ write_buffer = t.write_buffer
    /\ consecutive_writes = t.consecutive_writes
    /\ paused_reading = t.paused_reading
    /\ paused_writing = t.paused_writing
    /\ read_buffer = t.read_buffer
    /\ reader = t.reader
    /\ writer = t.writer
    /\ handshake_reading = t.handshake_reading
    /\ handshake_writing = t.handshake_writing
    /\ soon = t.soon
    /\ hs_done = t.hs_done
    /\ peer_eof = t.peer_eof
    /\ calls = t.calls
    /\ written = t.written
    /\ sent = t.sent
    /\ nrecv = t.nrecv
    /\ nreact = t.nreact
    /\ paused_arrived = t.paused_arrived
    /\ flushed = t.flushed
    /\ resumed = t.resumed
    /\ burst = t.burst
    /\ hs_failed = t.hs_failed
    /\ raised = t.raised
    /\ aborted = t.aborted
    /\ deferred = t.deferred
    /\ fault = t.fault
    /\ fault_errno = t.fault_errno
    /\ recv_error = t.recv_error

RECURSIVE Flatten(_)
Flatten(chunks) ==
    IF chunks = <<>> THEN <<>> ELSE Head(chunks) \o Flatten(Tail(chunks))

NoBuffer == [none |-> TRUE, list |-> <<>>]
ListBuffer(l) == [none |-> FALSE, list |-> l]

(* The record of one protocol callback. *)
Call(cb, chunk, failure, paused, hs) ==
    [cb |-> cb, chunk |-> chunk, failure |-> failure, paused |-> paused,
     hs |-> hs]

(* A callback is recorded with what held when it was made: whether reading
   was paused and whether the TLS handshake had completed. *)
Log(t, cb, chunk, failure) ==
    [t EXCEPT !.calls = Append(@, Call(cb, chunk, failure, t.paused_reading,
                                       t.hs_done))]

(* The write queue changed: a write that was draining is over once it is
   empty. *)
Drained(t) == IF t.write_buffer = <<>> THEN [t EXCEPT !.burst = 0] ELSE t

-----------------------------------------------------------------------------
(* SocketTransport, the base class (pulsar/async/internet.py)               *)

(* connection_lost is the protocol's last callback. *)
connection_lost(t, failure) == Log(t, "connection_lost", 0, failure)

(* _shutdown: tear the socket down, once, and tell the protocol. *)
shutdown(t, failure) ==
    IF t.sock = "closed" THEN t
    ELSE connection_lost(
             [t EXCEPT !.sock = "closed", !.write_buffer = <<>>,
                       !.reader = "none", !.writer = "none"],
             failure)

(* abort(failure): tear down now, whatever is queued. *)
abort(t, failure) ==
    shutdown([t EXCEPT !.closing = TRUE, !.aborted = TRUE], failure)

(* close(): stop reading; shut down once the write queue has drained. *)
close(t) ==
    IF t.closing THEN t
    ELSE LET t1 == [t EXCEPT !.closing = TRUE, !.reader = "none",
                             !.deferred = t.write_buffer # <<>>]
         IN  IF t1.write_buffer = <<>>
             THEN [t1 EXCEPT !.soon = Append(@, "_shutdown")]
             ELSE t1

(* _check_closed raises when the transport is closing. *)
check_closed_raises(t) == t.closing

(* merge_prefix(buffer, size) followed by popleft(): the first `size` bytes
   leave the front of the queue. *)
merge_prefix_popleft(buffer, size) ==
    LET first == Head(buffer)
    IN  IF size >= Len(first) THEN Tail(buffer)
        ELSE <<SubSeq(first, size + 1, Len(first))>> \o Tail(buffer)


-----------------------------------------------------------------------------
(* Errors.  An exception is its class and its errno. *)

Err(cls, errno) == [cls |-> cls, errno |-> errno]
NoExc == Err("", 0)

(* EWOULDBLOCK and EINPROGRESS (115) *)
TRY_WRITE_AGAIN == {EWOULDBLOCK, 115}

(* `except self.SocketError`: socket.error on a plain transport,
   ssl.SSLError (a subclass of socket.error) on a TLS transport. *)
IsSocketError(t, e) ==
    IF t.kind = "ssl" THEN e.cls = "SSLError"
    ELSE e.cls \in {"socket.error", "SSLError"}

(* An exception raised by recv, with what held when it was raised: whether
   the transport was closing, and whether _read_continue accepts it. *)
RecvError(e, wasClosing, retry) ==
    [cls |-> e.cls, errno |-> e.errno, closing |-> wasClosing,
     retry |-> retry]

NoRecvError == RecvError(NoExc, FALSE, FALSE)

(* mute_read_error: the read errors that mean the socket has started
   shutting down. *)
mute_read_error(e) == e.errno \in {ESHUTDOWN}

(* _write_continue *)
write_continue(t, e) ==
    IF t.kind = "ssl"
    THEN e.errno \in {SSL_ERROR_WANT_WRITE, SSL3_WRITE_PENDING}
    ELSE e.errno \in TRY_WRITE_AGAIN

(* _read_continue *)
read_continue(t, e) ==
    IF t.kind = "ssl"
    THEN e.errno \in {SSLV3_ALERT_CERTIFICATE_UNKNOWN, SSL_ERROR_WANT_READ}
    ELSE e.errno = EWOULDBLOCK

(* What the operating system can raise from send, recv and do_handshake:
   on a TLS socket SSL_ERROR_SSL (1), want-read, want-write, SSL_ERROR_EOF
   (8) and the socket's own ECONNRESET (104). *)
IoErrors(t) ==
    IF t.kind = "ssl"
    THEN {Err("SSLError", 1),
          Err("SSLError", SSL_ERROR_WANT_READ),
          Err("SSLError", SSL_ERROR_WANT_WRITE),
          Err("SSLError", 8),
          Err("socket.error", 104)}
    ELSE {Err("socket.error", EWOULDBLOCK),
          Err("socket.error", ESHUTDOWN),
          Err("socket.error", 104)}

-----------------------------------------------------------------------------
(* SocketStreamTransport: reading *)

(* pause_reading *)
pause_reading(t) ==
    IF ~t.paused_reading
    THEN [t EXCEPT !.paused_reading = TRUE, !.paused_arrived = <<>>,
                   !.resumed = FALSE]
    ELSE t

(* The calls a protocol makes on its transport from inside data_received. *)
ProtocolCalls == {"pause_reading", "resume_reading", "close", "abort"}

RECURSIVE resume_reading(_, _)
RECURSIVE data_received(_, _, _)

(* What the protocol does inside a callback: one call on the transport. *)
React(t, r) ==
    LET t1 == [t EXCEPT !.nreact = @ + 1]
    IN  CASE r = "pause_reading" -> {pause_reading(t1)}
          [] r = "resume_reading" -> resume_reading(t1, FALSE)
          [] r = "close" -> {close(t1)}
          [] r = "abort" -> {abort(t1, "None")}
          [] OTHER -> {t}

(* The protocol's data_received(chunk); `reactive`: the protocol may call
   back into the transport before it returns. *)
data_received(t, chunk, reactive) ==
    LET t1 == Log(t, "data_received", chunk, "None")
    IN  IF reactive /\ t.nreact < MaxReact
        THEN UNION {React(t1, r) : r \in ProtocolCalls \cup {"none"}}
        ELSE {t1}

(* `for chunk in buffer: self._protocol.data_received(chunk)` *)
RECURSIVE flush(_, _, _)
flush(t, buffer, reactive) ==
    IF buffer = <<>>
    THEN {[t EXCEPT !.resumed = ~t.paused_reading]}
    ELSE UNION {flush(t1, Tail(buffer), reactive) :
                 t1 \in data_received(
                            [t EXCEPT !.flushed = Append(@, Head(buffer))],
                            Head(buffer), reactive)}

(* resume_reading *)
resume_reading(t, reactive) ==
    IF t.paused_reading
    THEN LET buffer == t.read_buffer
             t1 == [t EXCEPT !.paused_reading = FALSE,
                             !.read_buffer = NoBuffer, !.flushed = <<>>]
         IN  IF buffer.none
             THEN \* `for chunk in None` raises TypeError
                  {[t1 EXCEPT !.raised = "TypeError", !.resumed = TRUE]}
             ELSE flush(t1, buffer.list, reactive)
    ELSE {t}

(* The protocol's eof_received(), which may raise. *)
eof_received(t) ==
    LET t1 == Log(t, "eof_received", 0, "None")
    IN  {[t |-> t1, exc |-> NoExc], [t |-> t1, exc |-> Err("Exception", 0)]}

(* The handlers of _ready_read: `except self.SocketError` and
   `except Exception`, then `if failure: self.abort(failure)`. *)
read_failed(t, e) ==
    IF IsSocketError(t, e)
    THEN IF t.closing THEN t ELSE abort(t, e.cls)
    ELSE abort(t, e.cls)

(* The loop of _ready_read, from its pass number `passes` on. *)
RECURSIVE read_loop(_, _)
read_loop(t, passes) ==
    IF t.sock = "closed"
    THEN \* recv on the socket that was torn down raises
         {read_failed([t EXCEPT !.recv_error =
                           RecvError(Err("socket.error", ESHUTDOWN),
                                     t.closing, FALSE)],
                      Err("socket.error", ESHUTDOWN))}
    ELSE
      (* recv returns a chunk *)
      (IF ~t.peer_eof /\ t.nrecv < MaxRecv
       THEN LET chunk == t.nrecv + 1
                t1 == [t EXCEPT !.nrecv = chunk]
            IN  IF t1.paused_reading
                THEN LET t2 == [t1 EXCEPT !.paused_arrived = Append(@, chunk)]
                     IN  IF t2.read_buffer.none
                         THEN \* None.append raises AttributeError
                              {read_failed(t2, Err("AttributeError", 0))}
                         ELSE read_loop(
                                  [t2 EXCEPT !.read_buffer =
                                      ListBuffer(Append(@.list, chunk))],
                                  passes + 1)
                ELSE UNION {read_loop(t2, passes + 1) :
                             t2 \in data_received(t1, chunk, TRUE)}
       ELSE {})
      \cup
      (* recv returns b'' *)
      (LET t1 == [t EXCEPT !.peer_eof = TRUE]
       IN  IF passes = 0
           THEN {IF r.exc = NoExc THEN close(r.t)
                 ELSE read_failed(close(r.t), r.exc) : r \in eof_received(t1)}
           ELSE {t1})
      \cup
      (* recv raises *)
      {LET retry == IsSocketError(t, e) /\ read_continue(t, e)
           t1 == [t EXCEPT !.recv_error = RecvError(e, t.closing, retry)]
       IN  IF retry THEN t1 ELSE read_failed(t1, e) : e \in IoErrors(t)}

(* _ready_read *)
ready_read(t) == read_loop(t, 0)

-----------------------------------------------------------------------------
(* SocketStreamTransport: writing *)

(* pause_writing *)
pause_writing(t) ==
    IF ~t.paused_writing
    THEN [t EXCEPT !.paused_writing = TRUE, !.writer = "none"]
    ELSE t

(* resume_writing: the callback it registers, self._write_ready, is not an
   attribute of the class (the handler is _ready_write): evaluating it
   raises AttributeError before add_writer is called. *)
resume_writing(t) ==
    IF t.paused_writing
    THEN LET t1 == [t EXCEPT !.paused_writing = FALSE]
         IN  IF t1.write_buffer # <<>>
             THEN [t1 EXCEPT !.raised = "AttributeError"]
             ELSE t1
    ELSE t

(* Slices with the loop over the slices lost: only the first is queued. *)
SlicesFirstOnly(data) ==
    IF Len(data) <= WRITE_BUFFER_MAX_SIZE THEN <<data>>
    ELSE <<SubSeq(data, 1, WRITE_BUFFER_MAX_SIZE)>>

(* The pieces write appends for `data`: data itself, or its slices of
   WRITE_BUFFER_MAX_SIZE bytes. *)
RECURSIVE Slices(_)
Slices(data) ==
    IF Len(data) <= WRITE_BUFFER_MAX_SIZE THEN <<data>>
    ELSE <<SubSeq(data, 1, WRITE_BUFFER_MAX_SIZE)>>
         \o Slices(SubSeq(data, WRITE_BUFFER_MAX_SIZE + 1, Len(data)))

(* The `while buffer` loop of _ready_write: the transport it leaves and the
   exception that ended it, if any. *)
RECURSIVE write_loop(_)
write_loop(t) ==
    IF t.write_buffer = <<>> THEN {[t |-> t, exc |-> NoExc]}
    ELSE IF t.sock = "closed"
    THEN \* send on the socket that was torn down raises
         {[t |-> [t EXCEPT !.fault = "socket.error",
                           !.fault_errno = ESHUTDOWN],
           exc |-> Err("socket.error", ESHUTDOWN)]}
    ELSE
      (* send accepts n bytes of the first chunk *)
      UNION {write_loop(
                 Drained([t EXCEPT
                     !.sent = @ \o SubSeq(Head(t.write_buffer), 1, n),
                     !.write_buffer = merge_prefix_popleft(@, n)])) :
             n \in 1..Len(Head(t.write_buffer))}
      \cup
      (* send accepts nothing *)
      {[t |-> [t EXCEPT !.fault = "stall"], exc |-> NoExc]}
      \cup
      (* send raises *)
      {IF IsSocketError(t, e) /\ write_continue(t, e)
       THEN [t |-> [t EXCEPT !.fault = "stall"], exc |-> NoExc]
       ELSE [t |-> [t EXCEPT !.fault = e.cls, !.fault_errno = e.errno],
             exc |-> e] :
       e \in IoErrors(t)}

(* _ready_write scheduling the shutdown of a closing transport whether or
   not the queue is empty. *)
ready_write_eager(t) ==
    IF t.paused_writing THEN {t}
    ELSE {IF r.exc = NoExc
          THEN LET t1 == IF r.t.write_buffer = <<>>
                         THEN [r.t EXCEPT !.writer = "none"] ELSE r.t
               IN  IF t1.closing
                   THEN [t1 EXCEPT !.soon = Append(@, "_shutdown")]
                   ELSE t1
          ELSE IF ~r.t.closing THEN abort(r.t, r.exc.cls) ELSE r.t :
          r \in write_loop(t)}

(* _ready_write *)
ready_write(t) ==
    IF t.paused_writing THEN {t}
    ELSE {IF r.exc = NoExc
          THEN IF r.t.write_buffer = <<>>
               THEN LET t1 == [r.t EXCEPT !.writer = "none"]
                    IN  IF t1.closing
                        THEN [t1 EXCEPT !.soon = Append(@, "_shutdown")]
                        ELSE t1
               ELSE r.t
          ELSE IF ~r.t.closing THEN abort(r.t, r.exc.cls) ELSE r.t :
          r \in write_loop(t)}

(* write(data) *)
write(t, data) ==
    IF data = <<>> THEN {t}
    ELSE IF check_closed_raises(t) THEN {[t EXCEPT !.raised = "IOError"]}
    ELSE
      LET is_writing == t.write_buffer # <<>>
          t1 == [t EXCEPT !.write_buffer = @ \o Slices(data),
                          !.written = @ \o data]
      IN  IF t1.paused_writing THEN {t1}
          ELSE IF ~is_writing
          THEN {IF t2.write_buffer # <<>>
                THEN [t2 EXCEPT !.writer = "_ready_write"]
                ELSE IF t2.closing
                THEN [t2 EXCEPT !.soon = Append(@, "_shutdown")]
                ELSE t2 :
                t2 \in ready_write([t1 EXCEPT !.consecutive_writes = 0])}
          ELSE LET t2 == [t1 EXCEPT !.consecutive_writes = @ + 1,
                                    !.burst = @ + 1]
               IN  IF t2.consecutive_writes > MAX_CONSECUTIVE_WRITES
                   THEN {abort(t2, "TooManyConsecutiveWrite")}
                   ELSE {t2}

-----------------------------------------------------------------------------
(* _do_handshake *)

(* plain_do_handshake calling connection_made itself. *)
plain_do_handshake_sync(t) ==
    Log([t EXCEPT !.reader = "_ready_read"], "connection_made", 0, "None")

(* SocketStreamTransport._do_handshake *)
plain_do_handshake(t) ==
    [t EXCEPT !.reader = "_ready_read",
              !.soon = Append(@, "connection_made")]

(* What self._sock.do_handshake() can do: return (o = NoExc) or raise o. *)
HandshakeOutcomes(t) ==
    IF t.hs_done THEN {NoExc} ELSE {NoExc} \cup IoErrors(t)

(* SocketStreamSslTransport._do_handshake, do_handshake() ending in o *)
ssl_do_handshake(t, o) ==
    IF o = NoExc
    THEN LET t1 == IF t.handshake_reading
                   THEN [t EXCEPT !.reader = "_ready_read"]
                   ELSE [t EXCEPT !.reader = "_ready_read",
                                  !.writer = "_ready_write"]
         IN  [t1 EXCEPT !.handshake_reading = FALSE,
                        !.handshake_writing = FALSE,
                        !.hs_done = TRUE,
                        !.soon = Append(@, "connection_made")]
    ELSE IF IsSocketError(t, o)
    THEN IF read_continue(t, o)
         THEN [t EXCEPT !.handshake_reading = TRUE,
                        !.reader = "_do_handshake",
                        !.hs_failed = @ \/ o.errno # SSL_ERROR_WANT_READ]
         ELSE IF write_continue(t, o)
         THEN [t EXCEPT !.handshake_writing = TRUE,
                        !.writer = "_do_handshake"]
         ELSE \* `raise` in an except clause is not caught by the
              \* `except Exception` clause of the same try statement
              [t EXCEPT !.raised = o.cls, !.hs_failed = TRUE]
    ELSE abort([t EXCEPT !.hs_failed = TRUE], o.cls)

(* The transport as its constructor leaves it before _do_handshake. *)
New(k) ==
    [kind |-> k, sock |-> "open", closing |-> FALSE, write_buffer |-> <<>>,
     consecutive_writes |-> 0, paused_reading |-> FALSE,
     paused_writing |-> FALSE, read_buffer |-> ListBuffer(<<>>),
     reader |-> "none", writer |-> "none", handshake_reading |-> FALSE,
     handshake_writing |-> FALSE, soon |-> <<>>, hs_done |-> FALSE,
     peer_eof |-> FALSE, calls |-> <<>>, written |-> <<>>, sent |-> <<>>,
     nrecv |-> 0, nreact |-> 0, paused_arrived |-> <<>>, flushed |-> <<>>,
     resumed |-> FALSE, burst |-> 0, hs_failed |-> FALSE, raised |-> "",
     aborted |-> FALSE, deferred |-> FALSE, fault |-> "", fault_errno |-> 0,
     recv_error |-> NoRecvError]

(* The constructor: __init__ ends by calling self._do_handshake().  When
   that raises, no transport object comes to exist: nothing holds the
   wrapped socket, and no method can be called. *)
Constructed ==
    {plain_do_handshake(New("plain"))}
    \cup {LET t == ssl_do_handshake(New("ssl"), o)
          IN  IF t.raised # "" THEN [t EXCEPT !.sock = "unowned"] ELSE t :
          o \in HandshakeOutcomes(New("ssl"))}

-----------------------------------------------------------------------------
(* The event loop runs the callback at the head of its call_soon queue. *)
run_soon(t) ==
    LET t1 == [t EXCEPT !.soon = Tail(@)]
    IN  IF Head(t.soon) = "connection_made"
        THEN Log(t1, "connection_made", 0, "None")
        ELSE shutdown(t1, "None")

(* The bytes of the next write call of n bytes: each byte is its position
   in the stream of all bytes written. *)
Data(n) == [i \in 1..n |-> Len(written) + i]

NoConn == [pc |-> "idle"]
NoSrv == [pc |-> "idle"]
NoPending == <<>>
NoAcc == [pc |-> "idle"]
NoHttp == [pc |-> "idle"]

(* The parts of the state that are not in use stay as they are. *)
Unused(used) ==
    /\ "conn" \notin used => conn = NoConn
    /\ "srv" \notin used => srv = NoSrv
    /\ "pending" \notin used => pending = NoPending
    /\ "acc" \notin used => acc = NoAcc
    /\ "http" \notin used => http = NoHttp

(* A top-level call starts with no exception pending. *)
Top == [T EXCEPT !.raised = "", !.fault = "", !.fault_errno = 0,
                 !.recv_error = NoRecvError]

Apply(t) == Commit(t) /\ UNCHANGED <<conn, srv, pending, acc, http>>

-----------------------------------------------------------------------------
(* Actions: calls of the application *)

Write ==
    \E n \in 0..MaxBytes :
        /\ sock # "unowned"
        /\ Len(written) + n <= MaxBytes
        /\ \E t \in write(Top, Data(n)) : Apply(t)

PauseReading ==
    sock # "unowned" /\ \E t \in {pause_reading(Top)} : Apply(t)

ResumeReading ==
    sock # "unowned" /\ \E t \in resume_reading(Top, TRUE) : Apply(t)

PauseWriting ==
    sock # "unowned" /\ \E t \in {pause_writing(Top)} : Apply(t)

ResumeWriting ==
    sock # "unowned" /\ \E t \in {resume_writing(Top)} : Apply(t)

Close == sock # "unowned" /\ \E t \in {close(Top)} : Apply(t)

Abort == sock # "unowned" /\ \E t \in {abort(Top, "None")} : Apply(t)

(* Actions: callbacks of the event loop.  Callbacks queued with call_soon
   run before the readiness callbacks of a later poll. *)

RunSoon == soon # <<>> /\ Apply(run_soon(Top))

ReadyRead ==
    /\ soon = <<>>
    /\ reader = "_ready_read"
    /\ \E t \in ready_read(Top) : Apply(t)

ReadyWrite ==
    /\ soon = <<>>
    /\ writer = "_ready_write"
    /\ \E t \in ready_write(Top) : Apply(t)

DoHandshake ==
    /\ soon = <<>>
    /\ "_do_handshake" \in {reader, writer}
    /\ \E o \in HandshakeOutcomes(Top) : Apply(ssl_do_handshake(Top, o))

Init == (\E t \in Constructed : Start(t)) /\ Unused({})

(* The life of a transport and its reading side. *)
Next ==
    \/ PauseReading
    \/ ResumeReading
    \/ Close
    \/ Abort
    \/ RunSoon
    \/ ReadyRead
    \/ ReadyWrite
    \/ DoHandshake

Spec == Init /\ [][Next]_vars

(* The writing side of a transport. *)
NextWrite ==
    \/ Write
    \/ PauseWriting
    \/ ResumeWriting
    \/ Close
    \/ Abort
    \/ RunSoon
    \/ ReadyWrite
    \/ DoHandshake

SpecWrite == Init /\ [][NextWrite]_vars

(* The writing side with the event loop doing its part: callbacks queued
   with call_soon are run, and the socket does not stall for ever: again
   and again a write-readiness callback has a send that accepts bytes or
   raises a fatal error. *)
SpecWriteFair ==
    /\ SpecWrite
    /\ WF_vars(RunSoon)
    /\ SF_vars(ReadyWrite /\ fault' # "stall")

(* A plain transport in the middle of a long run of writes: its connection
   is made, one byte is queued behind a stalled send, and write was called
   c more times while that queue was draining. *)
Draining(c) ==
    [run_soon(plain_do_handshake(New("plain"))) EXCEPT
        !.write_buffer = <<<<1>>>>, !.written = <<1>>,
        !.writer = "_ready_write",
        !.consecutive_writes = c, !.burst = c]

InitBurst ==
    /\ \E c \in (MAX_CONSECUTIVE_WRITES - MaxBytes)..MAX_CONSECUTIVE_WRITES :
           Start(Draining(c))
    /\ Unused({})

NextBurst ==
    \/ Write
    \/ PauseWriting
    \/ ResumeWriting
    \/ RunSoon
    \/ ReadyWrite

SpecBurst == InitBurst /\ [][NextBurst]_vars

-----------------------------------------------------------------------------
(* create_connection, the connector *)

(* socket.error(errno, strerror); a message is a sequence of its parts. *)
SockError(errno, strerror) == [errno |-> errno, strerror |-> strerror]

(* str(exc) of socket.error(errno, strerror): "[Errno <errno>] <strerror>" *)
Str(e) == <<"[Errno", e.errno, "]">> \o e.strerror

(* The error create_connection makes of a failed bind on local address j. *)
BindError(j, exc) ==
    SockError(exc.errno,
              <<"error while attempting to bind on address", j, ":">>
              \o exc.strerror)

(* What the operating system raises: EMFILE from socket(), EADDRINUSE from
   bind, ECONNREFUSED or ETIMEDOUT from connect. *)
CreateErrors == {SockError(24, <<"too many open files">>)}
OsBindError == SockError(98, <<"address already in use">>)
ConnectErrors == {SockError(111, <<"connection refused">>),
                  SockError(110, <<"connection timed out">>)}

(* ', '.join(str(exc) for exc in exceptions) *)
RECURSIVE JoinStr(_)
JoinStr(excs) ==
    IF excs = <<>> THEN <<>>
    ELSE IF Len(excs) = 1 THEN Str(Head(excs))
    ELSE Str(Head(excs)) \o <<", ">> \o JoinStr(Tail(excs))

(* combined_error with any() where the source has all(): one error is
   raised as soon as two of them read the same. *)
combined_error_any(exceptions) ==
    IF Len(exceptions) = 1 THEN exceptions[1]
    ELSE IF exceptions = <<>>
    THEN [errno |-> 0, strerror |-> <<"IndexError">>]
    ELSE IF \E k \in DOMAIN exceptions \ {1} :
                Str(exceptions[k]) = Str(exceptions[1])
    THEN exceptions[1]
    ELSE [errno |-> 0,
          strerror |-> <<"Multiple exceptions: ">> \o JoinStr(exceptions)]

(* The `else` of the loop over the candidates: the error that is raised. *)
combined_error(exceptions) ==
    IF Len(exceptions) = 1 THEN exceptions[1]
    ELSE IF exceptions = <<>>
    THEN \* exceptions[0] of an empty list
         [errno |-> 0, strerror |-> <<"IndexError">>]
    ELSE IF \A k \in DOMAIN exceptions : Str(exceptions[k]) = Str(exceptions[1])
    THEN exceptions[1]
    ELSE [errno |-> 0,
          strerror |-> <<"Multiple exceptions: ">> \o JoinStr(exceptions)]

NoError == [errno |-> 0, strerror |-> <<>>]

(* create_connection with host and port given, once the addresses are
   resolved: n remote candidates, and l local ones (0: no local_addr). *)
Resolved(n, l) ==
    [pc |-> "loop", infos |-> n, laddr_infos |-> l, i |-> 1, sock |-> 0,
     sockets |-> [k \in 1..n |-> "unopened"], exceptions |-> <<>>,
     error |-> NoError, transports |-> <<>>, attempts |-> <<>>,
     host |-> TRUE, port |-> TRUE, presock |-> FALSE,
     lookups |-> IF l > 0 THEN 2 ELSE 1]

(* local_bind without the `break`: every local address is bound. *)
RECURSIVE local_bind_all(_, _, _)
local_bind_all(j, l, binds) ==
    IF j > l THEN [bound |-> 0, tried |-> <<>>, errors |-> <<>>]
    ELSE LET r == local_bind_all(j + 1, l, binds)
         IN  IF binds[j]
             THEN [bound |-> IF r.bound = 0 THEN j ELSE r.bound,
                   tried |-> <<j>> \o r.tried, errors |-> r.errors]
             ELSE [bound |-> r.bound, tried |-> <<j>> \o r.tried,
                   errors |-> <<BindError(j, OsBindError)>> \o r.errors]

(* The loop over laddr_infos from the j-th of l local addresses on;
   binds[j]: sock.bind on the j-th succeeds.  bound: the address the
   loop stopped at (0: its `else` is run), tried: the addresses bind
   was called with, errors: what was appended to exceptions. *)
RECURSIVE local_bind(_, _, _)
local_bind(j, l, binds) ==
    IF j > l THEN [bound |-> 0, tried |-> <<>>, errors |-> <<>>]
    ELSE IF binds[j] THEN [bound |-> j, tried |-> <<j>>, errors |-> <<>>]
    ELSE LET r == local_bind(j + 1, l, binds)
         IN  [bound |-> r.bound, tried |-> <<j>> \o r.tried,
              errors |-> <<BindError(j, OsBindError)>> \o r.errors]

(* The `except socket.error` clause without exceptions.append(exc). *)
except_socket_error_unrecorded(c, s, exc) ==
    [c EXCEPT !.sockets = [k \in DOMAIN @ |->
                             IF k = s THEN "closed" ELSE @[k]]]

(* The `except socket.error as exc` clause of the loop: the socket s
   that sock names (0: None) is closed and exc is appended. *)
except_socket_error(c, s, exc) ==
    [c EXCEPT !.sockets = [k \in DOMAIN @ |->
                             IF k = s THEN "closed" ELSE @[k]],
              !.exceptions = Append(@, exc)]

(* What one pass of the loop did, kept for the properties. *)
Attempted(c, created, binds, b, connect, ok, errors) ==
    Append(c.attempts,
           [cand |-> c.i, ok |-> ok, errors |-> errors, created |-> created,
            bindok |-> binds, tried |-> b.tried, connect |-> connect])

NoBind == [bound |-> 0, tried |-> <<>>, errors |-> <<>>]

(* try_candidate without the sock.close() of the `except socket.error`
   clause: a socket whose connect failed stays open. *)
try_candidate_leak(c, created, cexc, binds, cerr) ==
    LET i == c.i
        b == local_bind(1, c.laddr_infos, binds)
    IN  IF ~created
        THEN [c EXCEPT !.i = i + 1,
                       !.exceptions = Append(@, cexc),
                       !.attempts = Attempted(c, FALSE, binds, NoBind, FALSE,
                                              FALSE, <<cexc>>)]
        ELSE IF c.laddr_infos > 0 /\ b.bound = 0
        THEN [c EXCEPT !.i = i + 1, !.sock = 0,
                       !.sockets[i] = "closed",
                       !.exceptions = @ \o b.errors,
                       !.attempts = Attempted(c, TRUE, binds, b, FALSE,
                                              FALSE, b.errors)]
        ELSE IF cerr # NoError
        THEN [c EXCEPT !.i = i + 1, !.sock = i,
                       !.sockets[i] = "open",
                       !.exceptions = (@ \o b.errors) \o <<cerr>>,
                       !.attempts = Attempted(c, TRUE, binds, b, TRUE,
                                              FALSE, b.errors \o <<cerr>>)]
        ELSE [c EXCEPT !.pc = "break", !.sock = i,
                       !.sockets[i] = "open",
                       !.exceptions = @ \o b.errors,
                       !.attempts = Attempted(c, TRUE, binds, b, TRUE,
                                              TRUE, b.errors)]

(* One pass of the loop over the candidates, for candidate c.i.
   created: socket_factory returned (cexc: what it raised otherwise);
   binds[j]: bind on the j-th local address succeeds; cerr: what connect
   raised (NoError: nothing). *)
try_candidate(c, created, cexc, binds, cerr) ==
    LET i == c.i
        b == local_bind(1, c.laddr_infos, binds)
    IN  IF ~created
        THEN \* `except socket.error`: sock is still the previous socket
             [except_socket_error(c, c.sock, cexc) EXCEPT
                       !.i = i + 1,
                       !.attempts = Attempted(c, FALSE, binds, NoBind, FALSE,
                                              FALSE, <<cexc>>)]
        ELSE IF c.laddr_infos > 0 /\ b.bound = 0
        THEN \* no local address binds: close, sock = None, continue
             [c EXCEPT !.i = i + 1, !.sock = 0,
                       !.sockets[i] = "closed",
                       !.exceptions = @ \o b.errors,
                       !.attempts = Attempted(c, TRUE, binds, b, FALSE,
                                              FALSE, b.errors)]
        ELSE IF cerr # NoError
        THEN \* sock_connect failed: `except socket.error`
             [except_socket_error(
                  [c EXCEPT !.sockets[i] = "open",
                            !.exceptions = @ \o b.errors], i, cerr) EXCEPT
                       !.i = i + 1, !.sock = i,
                       !.attempts = Attempted(c, TRUE, binds, b, TRUE,
                                              FALSE, b.errors \o <<cerr>>)]
        ELSE \* connected: break
             [c EXCEPT !.pc = "break", !.sock = i,
                       !.sockets[i] = "open",
                       !.exceptions = @ \o b.errors,
                       !.attempts = Attempted(c, TRUE, binds, b, TRUE,
                                              TRUE, b.errors)]

(* After the loop: the transport is built on sock, or the error raised. *)
finish(c) ==
    IF c.pc = "break"
    THEN [c EXCEPT !.pc = "connected", !.transports = Append(@, c.sock)]
    ELSE [c EXCEPT !.pc = "failed", !.error = combined_error(c.exceptions)]

ConnTry ==
    /\ conn.pc = "loop"
    /\ conn.i <= conn.infos
    /\ \E created \in BOOLEAN, cexc \in CreateErrors,
          binds \in [1..conn.laddr_infos -> BOOLEAN],
          cerr \in ConnectErrors \cup {NoError} :
           conn' = try_candidate(conn, created, cexc, binds, cerr)
    /\ UNCHANGED <<tvars, srv, pending, acc, http>>

ConnFinish ==
    /\ \/ conn.pc = "break"
       \/ conn.pc = "loop" /\ conn.i > conn.infos
    /\ conn' = finish(conn)
    /\ UNCHANGED <<tvars, srv, pending, acc, http>>

InitConnect ==
    /\ Start(New("plain"))
    /\ \E n \in 0..MaxCand, l \in 0..MaxLocal : conn = Resolved(n, l)
    /\ Unused({"conn"})

NextConnect == ConnTry \/ ConnFinish

SpecConnect == InitConnect /\ [][NextConnect]_vars

-----------------------------------------------------------------------------
(* create_connection from its arguments on *)

(* ValueError(msg) *)
ConfigError(msg) == [errno |-> 0, strerror |-> <<"ValueError", msg>>]

(* socket.error('getaddrinfo() returned empty list') *)
EmptyList == [errno |-> 0, strerror |-> <<"getaddrinfo() returned empty list">>]

(* A call of create_connection: which of host, port, sock and local_addr
   are not None.  lookups counts the getaddrinfo calls made. *)
ConnCall(host, port, presock, local_addr) ==
    [pc |-> "args", host |-> host, port |-> port, presock |-> presock,
     local_addr |-> local_addr, lookups |-> 0, sockets |-> <<>>,
     transports |-> <<>>, error |-> NoError]

(* create_connection_args testing `host is not None and port is not None`. *)
create_connection_args_and(c) ==
    IF c.host /\ c.port
    THEN IF c.presock
         THEN [c EXCEPT !.pc = "rejected",
                  !.error = ConfigError("host/port and sock can not be specified at the same time")]
         ELSE [c EXCEPT !.pc = "resolving",
                        !.lookups = IF c.local_addr THEN 2 ELSE 1]
    ELSE IF ~c.presock
    THEN [c EXCEPT !.pc = "rejected",
             !.error = ConfigError("host and port was not specified and no sock specified")]
    ELSE [c EXCEPT !.pc = "connected", !.sockets = <<"open">>,
                   !.transports = <<1>>]

(* create_connection up to its first yield; with sock alone nothing is
   yielded before the transport is built on it. *)
create_connection_args(c) ==
    IF c.host \/ c.port
    THEN IF c.presock
         THEN [c EXCEPT !.pc = "rejected",
                  !.error = ConfigError("host/port and sock can not be specified at the same time")]
         ELSE [c EXCEPT !.pc = "resolving",
                        !.lookups = IF c.local_addr THEN 2 ELSE 1]
    ELSE IF ~c.presock
    THEN [c EXCEPT !.pc = "rejected",
             !.error = ConfigError("host and port was not specified and no sock specified")]
    ELSE [c EXCEPT !.pc = "connected", !.sockets = <<"open">>,
                   !.transports = <<1>>]

(* create_connection resumed with the resolver's answers: n remote
   addresses and, for local_addr, l local ones. *)
create_connection_resolved(c, n, l) ==
    IF c.local_addr /\ l = 0
    THEN [c EXCEPT !.pc = "raised", !.error = EmptyList]
    ELSE [Resolved(n, IF c.local_addr THEN l ELSE 0) EXCEPT
              !.host = c.host, !.port = c.port]

ConnArgs ==
    /\ conn.pc = "args"
    /\ conn' = create_connection_args(conn)
    /\ UNCHANGED <<tvars, srv, pending, acc, http>>

ConnResolved ==
    /\ conn.pc = "resolving"
    /\ \E n \in 0..MaxCand, l \in 0..MaxLocal :
           conn' = create_connection_resolved(conn, n, l)
    /\ UNCHANGED <<tvars, srv, pending, acc, http>>

-----------------------------------------------------------------------------
(* start_serving, the listener *)

Families == {"AF_INET", "AF_INET6"}

(* What getaddrinfo can return: a list of address families. *)
InfoLists == UNION {[1..n -> Families] : n \in 0..MaxInfos}

(* A socket as socket_factory returns it. *)
Socket(af) ==
    [af |-> af, state |-> "open", reuse |-> FALSE, v6only |-> FALSE,
     bound |-> FALSE, listening |-> FALSE, nonblocking |-> FALSE,
     readers |-> 0]

(* A call of start_serving: host and port not None, the number of sockets
   in sock (0: None), and reuse_address once its default is resolved. *)
SrvCall(host, port, presock, reuse_address) ==
    [pc |-> "args", host |-> host, port |-> port, presock |-> presock,
     reuse_address |-> reuse_address, lookups |-> 0, infos |-> <<>>,
     sockets |-> <<>>, server |-> <<>>, bind_failed |-> 0,
     error |-> NoError]

(* close_sockets leaving the socket opened last as it is. *)
close_sockets_but_last(s, err) ==
    [s EXCEPT !.pc = "failed", !.error = err,
              !.sockets = [k \in DOMAIN @ |->
                              IF k < Len(@) THEN [@[k] EXCEPT !.state = "closed"]
                              ELSE @[k]]]

(* The `finally` of the bind loop when it did not complete: every socket
   in `sockets` is closed, and the error propagates. *)
close_sockets(s, err) ==
    [s EXCEPT !.pc = "failed", !.error = err,
              !.sockets = [k \in DOMAIN @ |-> [@[k] EXCEPT !.state = "closed"]]]

(* The loop over infos, from info i on: socket_factory, the socket options,
   bind.  socket_factory and bind may raise. *)
RECURSIVE bind_loop(_, _)
bind_loop(s, i) ==
    IF i > Len(s.infos) THEN {s}
    ELSE LET af == s.infos[i]
             sk == [Socket(af) EXCEPT !.reuse = s.reuse_address,
                                      !.v6only = (af = "AF_INET6")]
             s1 == [s EXCEPT !.sockets = Append(@, sk)]
         IN  {close_sockets(s, SockError(24, <<"too many open files">>))}
             \cup {close_sockets([s1 EXCEPT !.bind_failed = i],
                                 BindError(i, OsBindError))}
             \cup bind_loop([s1 EXCEPT !.sockets[i].bound = TRUE], i + 1)

(* Server(loop, sockets), then listen, setblocking(False) and add_reader
   for socket k and the ones after it.  listen may raise. *)
RECURSIVE listen_loop(_, _)
listen_loop(s, k) ==
    IF k > Len(s.sockets) THEN {[s EXCEPT !.pc = "serving"]}
    ELSE {[s EXCEPT !.pc = "failed", !.error = OsBindError]}
         \cup listen_loop([s EXCEPT !.sockets[k].listening = TRUE,
                                    !.sockets[k].nonblocking = TRUE,
                                    !.sockets[k].readers = @ + 1], k + 1)

(* serve starting its loop at the second socket. *)
serve_skip_first(s) ==
    listen_loop([s EXCEPT !.server = [k \in DOMAIN s.sockets |-> k]], 2)

(* Lines 398-404: the Server and the loop over its sockets. *)
serve(s) ==
    listen_loop([s EXCEPT !.server = [k \in DOMAIN s.sockets |-> k]], 1)

(* start_serving up to its yield; with sock alone nothing is yielded
   before the sockets given are served. *)
start_serving_args(s) ==
    IF s.host \/ s.port
    THEN IF s.presock > 0
         THEN {[s EXCEPT !.pc = "rejected",
                   !.error = ConfigError("host/port and sock can not be specified at the same time")]}
         ELSE {[s EXCEPT !.pc = "resolving", !.lookups = 1]}
    ELSE IF s.presock = 0
    THEN {[s EXCEPT !.pc = "rejected",
              !.error = ConfigError("host and port was not specified and no sock specified")]}
    ELSE serve([s EXCEPT !.sockets =
                   [k \in 1..s.presock |->
                       [Socket("AF_INET") EXCEPT !.bound = TRUE]]])

(* start_serving resumed with the resolver's answer. *)
start_serving_resolved(s, infos) ==
    IF infos = <<>>
    THEN {[s EXCEPT !.pc = "failed", !.error = EmptyList]}
    ELSE UNION {IF r.pc = "failed" THEN {r} ELSE serve(r) :
                r \in bind_loop([s EXCEPT !.infos = infos], 1)}

(* Server.close(): the listening sockets are torn down as a unit. *)
server_close(s) ==
    [s EXCEPT !.pc = "closed",
              !.sockets = [k \in DOMAIN @ |->
                              IF \E j \in DOMAIN s.server : s.server[j] = k
                              THEN [@[k] EXCEPT !.state = "closed",
                                                !.listening = FALSE,
                                                !.readers = 0]
                              ELSE @[k]]]

SrvArgs ==
    /\ srv.pc = "args"
    /\ \E s \in start_serving_args(srv) : srv' = s
    /\ UNCHANGED <<tvars, conn, pending, acc, http>>

SrvResolved ==
    /\ srv.pc = "resolving"
    /\ \E infos \in InfoLists :
           \E s \in start_serving_resolved(srv, infos) : srv' = s
    /\ UNCHANGED <<tvars, conn, pending, acc, http>>

SrvClose ==
    /\ srv.pc = "serving"
    /\ srv' = server_close(srv)
    /\ UNCHANGED <<tvars, conn, pending, acc, http>>

(* One call of create_connection or of start_serving, with any arguments. *)
InitSetup ==
    /\ Start(New("plain"))
    /\ \/ /\ \E h \in BOOLEAN, p \in BOOLEAN, k \in BOOLEAN, l \in BOOLEAN :
                 conn = ConnCall(h, p, k, l)
          /\ Unused({"conn"})
       \/ /\ \E h \in BOOLEAN, p \in BOOLEAN, k \in 0..MaxSocks,
                r \in BOOLEAN : srv = SrvCall(h, p, k, r)
          /\ Unused({"srv"})

NextSetup ==
    \/ ConnArgs
    \/ ConnResolved
    \/ ConnTry
    \/ ConnFinish
    \/ SrvArgs
    \/ SrvResolved
    \/ SrvClose

SpecSetup == InitSetup /\ [][NextSetup]_vars

-----------------------------------------------------------------------------
(* sock_connect: the connect attempts in progress on one event loop *)

(* A connect attempt on one socket: the connector watches registered for
   its descriptor, its future and how often the future was resolved, and
   the calls made on the loop, the socket and the future, in order. *)
Attempt ==
    [st |-> "new", watch |-> 0, future |-> "none", resolved |-> 0,
     so_error |-> 0, ops |-> <<>>]

Op(a, op) == [a EXCEPT !.ops = Append(@, op)]

(* future.callback(exc) with the errback given to the future:
   `lambda r: loop.remove_connector(fd)` *)
future_failure(a) ==
    Op(Op([a EXCEPT !.future = "failure", !.resolved = @ + 1, !.watch = 0],
          "callback"), "remove_connector")

(* sock_connect without its test of future.cancelled(). *)
sock_connect_uncancelled(a, fired, e, err) ==
    IF ~fired
    THEN LET a1 == Op([a EXCEPT !.future = "pending"], "connect")
         IN  IF e = NoExc THEN [a1 EXCEPT !.st = "returned"]
             ELSE IF e.errno \in TRY_WRITE_AGAIN
             THEN Op([a1 EXCEPT !.st = "waiting", !.watch = @ + 1],
                     "add_connector")
             ELSE future_failure([a1 EXCEPT !.st = "raised"])
    ELSE LET a1 == Op([a EXCEPT !.st = "fired", !.watch = 0],
                      "remove_connector")
             a2 == Op([a1 EXCEPT !.so_error = err], "getsockopt")
         IN  IF err # 0 THEN future_failure(a2)
             ELSE Op([a2 EXCEPT !.future = "result", !.resolved = @ + 1],
                     "callback")

(* sock_connect(loop, sock, address, future).  fired: the call is the
   loop's callback (future is not None); e: what sock.connect raised;
   err: the socket's SO_ERROR. *)
sock_connect(a, fired, e, err) ==
    IF ~fired
    THEN LET a1 == Op([a EXCEPT !.future = "pending"], "connect")
         IN  IF e = NoExc THEN [a1 EXCEPT !.st = "returned"]
             ELSE IF e.errno \in TRY_WRITE_AGAIN
             THEN Op([a1 EXCEPT !.st = "waiting", !.watch = @ + 1],
                     "add_connector")
             ELSE future_failure([a1 EXCEPT !.st = "raised"])
    ELSE LET a1 == Op([a EXCEPT !.st = "fired", !.watch = 0],
                      "remove_connector")
         IN  IF a1.future = "cancelled" THEN a1
             ELSE LET a2 == Op([a1 EXCEPT !.so_error = err], "getsockopt")
                  IN  IF err # 0 THEN future_failure(a2)
                      ELSE Op([a2 EXCEPT !.future = "result",
                                         !.resolved = @ + 1], "callback")

(* The caller cancels the future: nothing happens once it is resolved;
   errbacks: the cancellation runs the future's errback. *)
cancel(a, errbacks) ==
    IF a.future # "pending" THEN a
    ELSE LET a1 == Op([a EXCEPT !.future = "cancelled", !.resolved = @ + 1],
                      "cancel")
         IN  IF errbacks THEN Op([a1 EXCEPT !.watch = 0], "remove_connector")
             ELSE a1

(* What sock.connect raises on a non-blocking socket: EINPROGRESS (115),
   EWOULDBLOCK, ECONNREFUSED (111); or it returns. *)
ConnectOutcomes ==
    {NoExc, Err("socket.error", 115), Err("socket.error", EWOULDBLOCK),
     Err("socket.error", 111)}

SockConnect ==
    /\ \E fd \in DOMAIN pending, e \in ConnectOutcomes :
           /\ pending[fd].st = "new"
           /\ pending' = [pending EXCEPT ![fd] = sock_connect(@, FALSE, e, 0)]
    /\ UNCHANGED <<tvars, conn, srv, acc, http>>

ConnectFired ==
    /\ \E fd \in DOMAIN pending, err \in {0, 111} :
           /\ pending[fd].watch > 0
           /\ pending' = [pending EXCEPT
                              ![fd] = sock_connect(@, TRUE, NoExc, err)]
    /\ UNCHANGED <<tvars, conn, srv, acc, http>>

ConnectCancel ==
    /\ \E fd \in DOMAIN pending, errbacks \in BOOLEAN :
           /\ pending[fd].future # "none"
           /\ pending[fd].st # "returned"
           /\ pending' = [pending EXCEPT ![fd] = cancel(@, errbacks)]
    /\ UNCHANGED <<tvars, conn, srv, acc, http>>

InitSockConnect ==
    /\ Start(New("plain"))
    /\ pending = [fd \in 1..MaxFds |-> Attempt]
    /\ Unused({"pending"})

NextSockConnect ==
    \/ SockConnect
    \/ ConnectFired
    \/ ConnectCancel

(* The reactor reports a connecting socket writable once the connect has
   completed or failed, so a registered watch is eventually fired. *)
SpecSockConnect ==
    InitSockConnect /\ [][NextSockConnect]_vars /\ WF_vars(ConnectFired)

-----------------------------------------------------------------------------
(* sock_accept_connection, the accept callback of a listening socket *)

(* EAGAIN is EWOULDBLOCK *)
TRY_READ_AGAIN == {EWOULDBLOCK}

(* EMFILE, ENOBUFS, ENFILE, ENOMEM, ECONNABORTED *)
ACCEPT_ERRORS == {24, 105, 23, 12, 103}

(* What sock.accept() raises: would-block, EPERM, EMFILE, and EBADF (9)
   for an error of no known kind. *)
AcceptErrnos == {EWOULDBLOCK, EPERM, 24, 9}

(* One readiness notification of a listening socket; ssl: the listener
   has an ssl context.  batch: the errno each accept call of the
   notification raised (0: it returned a connection); conns: the
   connections it accepted; log: the records logged. *)
Listening(ssl) ==
    [pc |-> "ready", ssl |-> ssl, batch |-> <<>>, conns |-> <<>>,
     log |-> <<>>]

(* The connection that accept returned: open, an address with it, and no
   transport yet. *)
Accepted(a) ==
    [a EXCEPT !.conns = Append(@, [state |-> "open", owners |-> 0,
                                   tls |-> FALSE, addr |-> FALSE]),
              !.batch = Append(@, 0)]

(* The transport t, built with extra={'addr': address}, on the newest
   connection. *)
Owned(a, t) ==
    [a EXCEPT !.conns[Len(a.conns)] =
                  [state |-> IF t.sock = "closed" THEN "closed" ELSE "open",
                   owners |-> 1, tls |-> t.kind = "ssl", addr |-> TRUE]]

(* The outer `except Exception` letting the exception go. *)
outer_except_reraise(a) ==
    [a EXCEPT !.pc = "escaped"]

(* The outer `except Exception`: logger(loop).exception(...), and the
   callback returns. *)
outer_except(a) ==
    [a EXCEPT !.pc = "returned", !.log = Append(@, "exception")]

(* The loop from its i-th pass on: every way it can go. *)
RECURSIVE accept_loop(_, _)
accept_loop(a, i) ==
    IF i > NUMBER_ACCEPTS THEN {[a EXCEPT !.pc = "returned"]}
    ELSE \* sock.accept() raises socket.error e
         UNION {LET a1 == [a EXCEPT !.batch = Append(@, e)]
                IN  IF e \in TRY_READ_AGAIN
                    THEN {[a1 EXCEPT !.pc = "returned"]}
                    ELSE IF e = EPERM THEN accept_loop(a1, i + 1)
                    ELSE IF e \in ACCEPT_ERRORS
                    THEN {[a1 EXCEPT !.pc = "returned",
                                     !.log = Append(@, "info")]}
                    ELSE {outer_except(a1)} : e \in AcceptErrnos}
         \cup
         \* sock.accept() returns conn, address
         LET a1 == Accepted(a)
         IN  \* protocol_factory() raises
             {outer_except(a1)}
             \cup
             \* ssl_context or wrap_socket raises
             (IF a.ssl THEN {outer_except(a1)} ELSE {})
             \cup
             UNION {IF t.sock = "unowned"
                    THEN \* _do_handshake raised in the constructor
                         {outer_except(a1)}
                    ELSE accept_loop(Owned(a1, t), i + 1) :
                    t \in {c \in Constructed :
                               c.kind = IF a.ssl THEN "ssl" ELSE "plain"}}

sock_accept_connection(a) == accept_loop(a, 1)

AcceptReady ==
    /\ acc.pc = "ready"
    /\ \E a \in sock_accept_connection(acc) : acc' = a
    /\ UNCHANGED <<tvars, conn, srv, pending, http>>

InitAccept ==
    /\ Start(New("plain"))
    /\ \E ssl \in BOOLEAN : acc = Listening(ssl)
    /\ Unused({"acc"})

NextAccept == AcceptReady

SpecAccept == InitAccept /\ [][NextAccept]_vars

-----------------------------------------------------------------------------
(* HTTPDigestAuth (pulsar/apps/http/auth.py) on one response of the client *)

(* What the server answers: a status and a WWW-Authenticate header, which
   for Digest carries a nonce and a qop. *)
Answer(status, scheme, nonce, qop) ==
    [status |-> status, scheme |-> scheme, nonce |-> nonce, qop |-> qop]

Answers ==
    {Answer(200, "", 0, "None"), Answer(401, "", 0, "None"),
     Answer(401, "Basic", 0, "None")}
    \cup {Answer(401, "Digest", n, q) :
          n \in 1..MaxNonce, q \in {"None", "auth", "auth-int"}}

(* The request that was sent without an Authorization header. *)
NoAuthorization ==
    [scheme |-> "", nonce |-> 0, qop |-> "None", nc |-> 0, digest |-> <<>>]

(* encode(method, uri) with self.options parsed from the challenge: the
   header value, its response digest kept as what was hashed; None for
   qop auth-int.  last_nonce is never assigned, so nonce_count is 1. *)
encode(answer) ==
    IF answer.qop = "auth"
    THEN [scheme |-> "Digest", nonce |-> answer.nonce, qop |-> "auth",
          nc |-> 1, digest |-> <<"ha1", answer.nonce, 1, "auth", "ha2">>]
    ELSE IF answer.qop = "None"
    THEN [scheme |-> "Digest", nonce |-> answer.nonce, qop |-> "None",
          nc |-> 0, digest |-> <<"ha1", answer.nonce, "ha2">>]
    ELSE [scheme |-> "None", nonce |-> 0, qop |-> "None", nc |-> 0,
          digest |-> <<>>]

(* A response whose first request was sent with HTTPDigestAuth applied:
   __call__ has bound handle_401 to post_request.  sent: the
   Authorization header of every request issued for the response;
   answers: what the server answered; the two attributes of the response
   that handle_401 writes and reads (0: not set). *)
Requested ==
    [pc |-> "waiting", sent |-> <<NoAuthorization>>, answers |-> <<>>,
     attr_num_handle_401 |-> 0, attr_handle_401 |-> 0]

(* handle_401(response) *)
handle_401(h, answer) ==
    LET h0 == [h EXCEPT !.answers = Append(@, answer)]
    IN  IF answer.status = 401
        THEN LET h1 == [h0 EXCEPT !.attr_num_handle_401 =
                                      h.attr_handle_401 + 1]
             IN  IF answer.scheme = "Digest" /\ h1.attr_num_handle_401 < 2
                 THEN \* response.producer.request(..., response=response)
                      [h1 EXCEPT !.pc = "waiting",
                                 !.sent = Append(@, encode(answer))]
                 ELSE [h1 EXCEPT !.pc = "done"]
        ELSE [h0 EXCEPT !.pc = "done"]

(* The request is answered and the post_request event of the response
   fires. *)
PostRequest ==
    /\ http.pc = "waiting"
    /\ \E answer \in Answers :
           /\ Len(http.sent) < MaxRequests \/ answer.scheme # "Digest"
           /\ http' = handle_401(http, answer)
    /\ UNCHANGED <<tvars, conn, srv, pending, acc>>

InitHttp ==
    /\ Start(New("plain"))
    /\ http = Requested
    /\ Unused({"http"})

NextHttp == PostRequest

SpecHttp == InitHttp /\ [][NextHttp]_vars

-----------------------------------------------------------------------------
(* Properties *)

Calls(cb) == {i \in DOMAIN calls : calls[i].cb = cb}

(* C1: as long as the transport is not aborted, the bytes the socket has
   accepted followed by the bytes still in the write queue are the bytes of
   the write calls, in call order; so once the queue is empty exactly those
   bytes were sent. *)
C1_WriteOrder ==
    ~aborted => sent \o Flatten(write_buffer) = written

(* A write was split, its first slice was sent in part, the rest is queued. *)
C1_Witness ==
    /\ ~aborted
    /\ Len(written) = MaxBytes
    /\ Len(sent) = 1
    /\ Len(write_buffer) = 2
    /\ Len(Head(write_buffer)) = 1

(* C2: when a resume_reading ends a pause, the chunks it passed to
   data_received are the chunks received while reading was paused, in
   arrival order, and the overflow buffer holds nothing. *)
C2_ResumeDeliversPaused ==
    resumed => /\ flushed = paused_arrived
               /\ read_buffer.list = <<>>

(* C3: no data_received callback is made while reading is paused. *)
C3_NoDataWhilePaused ==
    \A i \in Calls("data_received") : ~calls[i].paused

(* C5: eof_received is made at most once, the transport is closing once it
   was made, and no data_received follows it. *)
C5_EofThenClose ==
    /\ Cardinality(Calls("eof_received")) <= 1
    /\ Calls("eof_received") # {} => closing
    /\ \A i \in Calls("eof_received") :
           \A j \in Calls("data_received") : j < i

(* C6: connection_lost is delivered at most once and it is the last
   callback the protocol gets. *)
C6_ConnectionLostLast ==
    /\ Cardinality(Calls("connection_lost")) <= 1
    /\ \A i \in Calls("connection_lost") : i = Len(calls)

(* C7: connection_made is invoked at most once and before every
   data_received and eof_received. *)
C7_ConnectionMadeFirst ==
    /\ Cardinality(Calls("connection_made")) <= 1
    /\ \A j \in Calls("data_received") \cup Calls("eof_received") :
           \E i \in Calls("connection_made") : i < j

(* C8: on a TLS transport connection_made is only invoked once the
   handshake has completed, and once a handshake attempt raised an error
   other than want-read or want-write the transport is aborted,
   connection_lost was invoked and connection_made is never invoked. *)
C8_HandshakeFailureAborts ==
    kind = "ssl" =>
        /\ \A i \in Calls("connection_made") : calls[i].hs
        /\ hs_failed => /\ aborted
                        /\ sock = "closed"
                        /\ Calls("connection_lost") # {}
                        /\ Calls("connection_made") = {}

(* connection_lost was delivered with a TooManyConsecutiveWrite failure. *)
TooManyAbort ==
    \E i \in Calls("connection_lost") :
        calls[i].failure = "TooManyConsecutiveWrite"

(* C4: the transport is aborted for too many consecutive writes exactly
   when more than MAX_CONSECUTIVE_WRITES writes were made while one write
   was draining, and after that abort nothing can be sent. *)
C4_TooManyWrites ==
    /\ TooManyAbort => burst > MAX_CONSECUTIVE_WRITES
    /\ burst > MAX_CONSECUTIVE_WRITES =>
           TooManyAbort /\ sock = "closed" /\ writer = "none"

(* C9: when the connector has connected, with candidate k the first whose
   connect succeeded, the candidates were tried in the order 1..k, one
   transport was built and it wraps the socket of candidate k, no socket of
   the candidates before k is open, and no socket was opened for the
   candidates after k. *)
C9_FirstSuccessWins ==
    LET k == Len(conn.attempts)
    IN  /\ conn.pc # "connected" => conn.transports = <<>>
        /\ conn.pc = "connected" =>
               /\ \A j \in 1..k : /\ conn.attempts[j].cand = j
                                  /\ conn.attempts[j].ok <=> j = k
               /\ conn.transports = <<k>>
               /\ conn.sockets[k] = "open"
               /\ \A j \in 1..(k - 1) : conn.sockets[j] # "open"
               /\ \A j \in (k + 1)..conn.infos : conn.sockets[j] = "unopened"

(* The third candidate connected after a socket of an earlier one was
   opened and had to be closed. *)
C9_Witness ==
    /\ conn.pc = "connected"
    /\ Len(conn.attempts) = 3
    /\ conn.sockets[2] = "closed"
    /\ conn.laddr_infos = 2

(* The errors of the failed attempts, in the order they occurred. *)
RECURSIVE Recorded(_)
Recorded(attempts) ==
    IF attempts = <<>> THEN <<>>
    ELSE Head(attempts).errors \o Recorded(Tail(attempts))

(* "a, b, c" built from the k-th error on, by position. *)
RECURSIVE Listing(_, _)
Listing(errs, k) ==
    IF k > Len(errs) THEN <<>>
    ELSE (IF k > 1 THEN <<", ">> ELSE <<>>) \o Str(errs[k])
         \o Listing(errs, k + 1)

(* C10: when every candidate failed, the error raised is the recorded error
   if there is one, one instance of it if all recorded errors read the
   same, and otherwise one error whose message lists every recorded error,
   bind and connect errors alike, in the order they occurred. *)
C10_CombinedError ==
    LET errs == Recorded(conn.attempts)
        same == \A k \in DOMAIN errs : Str(errs[k]) = Str(errs[1])
    IN  conn.pc = "failed" /\ conn.infos > 0 =>
            /\ Len(errs) >= 1
            /\ Len(errs) = 1 => conn.error = errs[1]
            /\ Len(errs) > 1 /\ same => conn.error = errs[1]
            /\ Len(errs) > 1 /\ ~same =>
                   conn.error.strerror =
                       <<"Multiple exceptions: ">> \o Listing(errs, 1)

(* Every candidate failed, with bind errors and a connect error; of the
   four errors recorded two read the same and two do not. *)
C10_Witness ==
    /\ conn.pc = "failed"
    /\ Len(conn.exceptions) = 4
    /\ Str(conn.exceptions[1]) = Str(conn.exceptions[3])
    /\ Str(conn.exceptions[2]) # Str(conn.exceptions[4])
    /\ conn.error.errno = 0

(* C11: when the bind address resolved to k addresses and startup
   succeeded, the Server holds exactly k sockets, one per address, each
   open, bound, listening, non-blocking and with exactly one accept
   callback registered; once the Server is closed all k are closed. *)
C11_ListenerSockets ==
    srv.pc \in {"serving", "closed"} /\ srv.lookups > 0 =>
        LET k == Len(srv.infos)
        IN  /\ k > 0
            /\ Len(srv.sockets) = k
            /\ Len(srv.server) = k
            /\ \A j \in 1..k :
                   /\ srv.server[j] = j
                   /\ srv.sockets[j].af = srv.infos[j]
                   /\ srv.pc = "serving" =>
                          /\ srv.sockets[j].state = "open"
                          /\ srv.sockets[j].bound
                          /\ srv.sockets[j].listening
                          /\ srv.sockets[j].nonblocking
                          /\ srv.sockets[j].readers = 1
                   /\ srv.pc = "closed" => srv.sockets[j].state = "closed"

(* A Server on an IPv4 and an IPv6 address was started and then closed. *)
C11_Witness ==
    /\ srv.pc = "closed"
    /\ srv.lookups > 0
    /\ Len(srv.infos) = 2
    /\ srv.infos[1] # srv.infos[2]

(* C12: when the bind of the address at some position failed, every socket
   opened so far, the one whose bind failed included, is closed, none is
   listening or has an accept callback, there is no Server, and the bind
   error is what start_serving raised. *)
C12_BindAllOrNothing ==
    srv.pc # "idle" /\ srv.bind_failed > 0 =>
        /\ srv.pc = "failed"
        /\ Len(srv.sockets) = srv.bind_failed
        /\ \A j \in DOMAIN srv.sockets :
               /\ srv.sockets[j].state = "closed"
               /\ ~srv.sockets[j].listening
               /\ srv.sockets[j].readers = 0
        /\ srv.server = <<>>
        /\ srv.error = BindError(srv.bind_failed, OsBindError)

(* The bind of the second address failed after the first had been bound. *)
C12_Witness ==
    /\ srv.pc = "failed"
    /\ srv.bind_failed = 2
    /\ srv.sockets[1].bound

(* The arguments are rejected: host or port together with sock, or none
   of them. *)
BadArguments(c, hasSock) ==
    \/ (c.host \/ c.port) /\ hasSock
    \/ ~c.host /\ ~c.port /\ ~hasSock

(* C13: a call of create_connection or start_serving with host/port and a
   socket, or with neither, ends with a ValueError before any address
   was resolved, any socket was created or adopted and anything was
   registered or built. *)
C13_ExclusiveArguments ==
    /\ conn.pc \notin {"idle", "args"} /\ BadArguments(conn, conn.presock) =>
           /\ conn.pc = "rejected"
           /\ conn.error.strerror[1] = "ValueError"
           /\ conn.lookups = 0
           /\ conn.sockets = <<>>
           /\ conn.transports = <<>>
    /\ srv.pc \notin {"idle", "args"} /\ BadArguments(srv, srv.presock > 0) =>
           /\ srv.pc = "rejected"
           /\ srv.error.strerror[1] = "ValueError"
           /\ srv.lookups = 0
           /\ srv.sockets = <<>>
           /\ srv.server = <<>>

(* create_connection was called with a host, no port and a socket. *)
C13_Witness ==
    /\ conn.pc = "rejected"
    /\ conn.host
    /\ ~conn.port
    /\ conn.presock

(* The number of _shutdown calls waiting in the call_soon queue. *)
Shutdowns(q) == Cardinality({i \in DOMAIN q : q[i] = "_shutdown"})

(* C14: a step in which or before which abort has run leaves no read or
   write registration for the transport's socket, and does not schedule a
   shutdown. *)
C14_NothingAfterAbort ==
    [][aborted' => /\ reader' = "none"
                   /\ writer' = "none"
                   /\ Shutdowns(soon') <= Shutdowns(soon)]_vars

(* C15: the write handler is registered for write-readiness only while the
   write queue is non-empty and writing is not paused. *)
C15_WriterOnlyWithDemand ==
    writer = "_ready_write" => write_buffer # <<>> /\ ~paused_writing

(* C16: while writing is paused the write handler is not registered and
   nothing is sent; a write call made while writing is paused appends the
   slices of its data to the write queue and changes nothing else. *)
C16_PausedWriting ==
    /\ [](paused_writing => writer # "_ready_write")
    /\ [][paused_writing /\ paused_writing' =>
            /\ sent' = sent
            /\ written' # written =>
                 /\ write_buffer' = write_buffer \o
                        Slices(SubSeq(written', Len(written) + 1,
                                      Len(written')))
                 /\ UNCHANGED <<sock, closing, consecutive_writes, reader,
                                writer, soon, calls, aborted>>]_vars

(* C17: a resume_writing that ends a pause registers the write handler for
   write-readiness when the write queue is non-empty, which is what the
   sending of the queued bytes then depends on, and adds no registration
   when the queue is empty. *)
C17_ResumeRegistersWriter ==
    [][paused_writing /\ ~paused_writing' =>
          /\ raised' = ""
          /\ write_buffer' # <<>> => writer' = "_ready_write"
          /\ write_buffer' = <<>> => writer' = writer]_vars

(* C18: after a close() that found the write queue non-empty, and unless
   the transport is aborted, the socket is open and no shutdown is
   scheduled as long as the queue is non-empty, every byte written was sent
   once the socket is closed, and the step that empties the queue removes
   the write registration and schedules the shutdown. *)
C18_DeferredShutdown ==
    /\ [](deferred /\ ~aborted =>
            /\ write_buffer # <<>> => sock = "open" /\ Shutdowns(soon) = 0
            /\ sock = "closed" => sent = written)
    /\ [][deferred /\ ~aborted' /\ write_buffer # <<>> /\ write_buffer' = <<>>
            => writer' = "none" /\ Shutdowns(soon') = 1]_vars

(* A close() found bytes queued, they were sent, and then the socket was
   shut down. *)
C18_Witness ==
    /\ deferred
    /\ ~aborted
    /\ sock = "closed"
    /\ Len(sent) >= 2
    /\ \E i \in Calls("connection_lost") : calls[i].failure = "None"

(* C19: a write-ready callback whose send returned zero bytes or raised
   would-block before anything was sent leaves the queue, the
   registrations and the transport as they were, and a drain loop ended by
   any other error has aborted the transport with that error, whether or
   not a close is pending. *)
C19_SendOutcomes ==
    /\ [](fault \notin {"", "stall"} =>
            /\ aborted
            /\ sock = "closed"
            /\ \E i \in Calls("connection_lost") : calls[i].failure = fault)
    /\ [][fault' = "stall" /\ sent' = sent /\ written' = written =>
            UNCHANGED <<write_buffer, reader, writer, sock, closing, soon,
                        calls, aborted>>]_vars

(* C20: a read-ready callback whose first recv raised would-block makes no
   callback and changes nothing; a recv error that is neither would-block
   (on a TLS socket: what _read_continue accepts, or want-write) nor a
   shutdown-in-progress error on a closing transport has aborted the
   transport with that error. *)
C20_RecvOutcomes ==
    /\ [](/\ recv_error.cls # ""
          /\ ~recv_error.retry
          /\ ~(recv_error.cls = "SSLError"
               /\ recv_error.errno = SSL_ERROR_WANT_WRITE)
          /\ ~(mute_read_error(recv_error) /\ recv_error.closing)
          => /\ aborted
             /\ \E i \in Calls("connection_lost") :
                    calls[i].failure = recv_error.cls)
    /\ [][recv_error'.retry /\ nrecv' = nrecv /\ peer_eof' = peer_eof =>
            UNCHANGED <<calls, write_buffer, read_buffer, reader, writer,
                        sock, closing, soon, paused_reading, aborted>>]_vars

(* C21: whenever a write changes consecutive_writes, its new value is the
   number of writes counted since the write queue was last empty. *)
C21_CounterRestarts ==
    [][consecutive_writes' # consecutive_writes =>
           consecutive_writes' = burst']_vars

(* want-read and want-write, the retryable conditions of a TLS socket *)
WantReadOrWrite(cls, errno) ==
    cls = "SSLError" /\ errno \in {SSL_ERROR_WANT_READ, SSL_ERROR_WANT_WRITE}

(* C22: on a TLS transport whose handshake has completed, a step in which
   a recv or a send raised want-read or want-write does not abort the
   transport, delivers no connection_lost and leaves the write queue as
   the sends before it left it. *)
C22_TlsRetryable ==
    [][/\ kind = "ssl" /\ hs_done
       /\ \/ WantReadOrWrite(recv_error'.cls, recv_error'.errno)
          \/ WantReadOrWrite(fault', fault_errno')
       => /\ aborted' = aborted
          /\ sock' = sock
          /\ Calls("connection_lost")' = Calls("connection_lost")
          /\ sent' \o Flatten(write_buffer') = sent \o Flatten(write_buffer)
             \/ written' # written]_vars

(* The connection_made callbacks scheduled or made so far. *)
Made(q, c) ==
    Cardinality({i \in DOMAIN q : q[i] = "connection_made"})
    + Cardinality({i \in DOMAIN c : c[i].cb = "connection_made"})

(* C23: on a TLS transport the read and write handlers are not registered
   while the handshake is pending; once it has completed both handshake
   flags are false, no registration refers to the handshake attempt, and
   the attempt does not run again (no further connection_made is
   scheduled). *)
C23_HandshakeForward ==
    /\ [](kind = "ssl" =>
            /\ ~hs_done => reader # "_ready_read" /\ writer # "_ready_write"
            /\ hs_done => /\ ~handshake_reading
                          /\ ~handshake_writing
                          /\ reader # "_do_handshake"
                          /\ writer # "_do_handshake")
    /\ [][kind = "ssl" /\ hs_done => Made(soon', calls') = Made(soon, calls)]_vars

(* C24: no connection_made has been made when the constructor returns, and
   a step makes a connection_made callback only by running the callback
   at the head of the call_soon queue. *)
C24_ConnectionMadeScheduled ==
    /\ Calls("connection_made") = {}
    /\ [][Calls("connection_made")' # Calls("connection_made") =>
            /\ soon # <<>>
            /\ Head(soon) = "connection_made"
            /\ soon' = Tail(soon)
            /\ calls' = Append(calls, calls'[Len(calls')])]_vars

(* The event loop has made the connection_made callback of a TLS transport
   whose handshake has completed. *)
C24_Witness ==
    /\ kind = "ssl"
    /\ hs_done
    /\ Calls("connection_made") # {}
    /\ soon = <<>>
    /\ nrecv = 0
    /\ sock = "open"

ConnectWatch(a) ==
    /\ a.watch \in {0, 1}
    /\ a.resolved <= 1
    /\ Cardinality({i \in DOMAIN a.ops : a.ops[i] = "add_connector"}) <= 1
    /\ a.st = "waiting" /\ a.future = "pending" => a.watch = 1
    /\ a.st = "waiting" => a.future \in {"pending", "cancelled"}
    /\ a.future \in {"result", "failure"} => a.watch = 0 /\ a.resolved = 1
    /\ a.st = "fired" =>
           /\ a.watch = 0
           /\ a.future \in {"result", "failure", "cancelled"}
           /\ a.future = "result" => a.so_error = 0
           /\ a.future = "failure" => a.so_error # 0
           /\ \A i \in DOMAIN a.ops : a.ops[i] = "getsockopt" =>
                  \E j \in 1..(i - 1) : a.ops[j] = "remove_connector"

(* C25: for every connect attempt: a connect that would block registers
   exactly one watch and leaves the future pending; the callback of the
   watch removes the watch before it reads the socket's error, resolves
   the future with a result exactly when that error is zero and with a
   failure otherwise, unless the future was cancelled; the future is
   resolved at most once; no watch is registered once the future has a
   result or a failure or the watch has fired, and after a cancellation
   the watch is eventually gone. *)
C25_ConnectWatch ==
    /\ [](\A fd \in 1..MaxFds : ConnectWatch(pending[fd]))
    /\ \A fd \in 1..MaxFds :
           pending[fd].future = "cancelled" ~> pending[fd].watch = 0

(* One attempt was cancelled while its watch stayed registered and the
   watch then fired; another failed when its watch fired; a third
   succeeded. *)
C25_Witness ==
    /\ \E fd \in DOMAIN pending :
           /\ pending[fd].st = "fired"
           /\ pending[fd].future = "cancelled"
           /\ pending[fd].ops = <<"connect", "add_connector", "cancel",
                                  "remove_connector">>
    /\ \E fd \in DOMAIN pending :
           pending[fd].st = "fired" /\ pending[fd].future = "failure"
    /\ \E fd \in DOMAIN pending :
           pending[fd].st = "fired" /\ pending[fd].future = "result"

(* The first local address whose bind succeeds (0: none). *)
FirstOk(bindok) ==
    IF \E j \in DOMAIN bindok : bindok[j]
    THEN CHOOSE j \in DOMAIN bindok :
             bindok[j] /\ \A m \in 1..(j - 1) : ~bindok[m]
    ELSE 0

(* C26: with a local address, for every remote candidate whose socket was
   created, bind was called with the local candidates in order up to and
   including the first that binds, and connect was then attempted; when
   none binds, bind was called with all of them, the candidate's socket
   is closed, one bind error per local candidate is recorded, connect
   was not attempted, and the loop went on to the next remote
   candidate. *)
C26_LocalBind ==
    conn.laddr_infos > 0 =>
        \A k \in DOMAIN conn.attempts :
            LET a == conn.attempts[k]
                f == FirstOk(a.bindok)
                l == conn.laddr_infos
                before == Len(Recorded(SubSeq(conn.attempts, 1, k - 1)))
            IN  a.created =>
                    /\ a.tried = [j \in 1..(IF f = 0 THEN l ELSE f) |-> j]
                    /\ f # 0 => a.connect
                    /\ f = 0 =>
                           /\ ~a.connect /\ ~a.ok
                           /\ conn.sockets[a.cand] = "closed"
                           /\ a.errors = [j \in 1..l |->
                                             BindError(j, OsBindError)]
                           /\ SubSeq(conn.exceptions, before + 1, before + l)
                                  = a.errors
                           /\ conn.i > a.cand
                           /\ k < Len(conn.attempts) =>
                                  conn.attempts[k + 1].cand = a.cand + 1
                           /\ k = Len(conn.attempts) /\ a.cand < conn.infos
                                  => conn.pc = "loop"

(* No local address could be bound for the first remote candidate; for
   the second the first local address failed and the second was bound,
   and the connect succeeded. *)
C26_Witness ==
    /\ conn.pc = "connected"
    /\ conn.laddr_infos = 2
    /\ Len(conn.attempts) = 2
    /\ conn.attempts[1].created /\ FirstOk(conn.attempts[1].bindok) = 0
    /\ conn.attempts[2].tried = <<1, 2>>
    /\ conn.attempts[2].ok

(* C27: the k-th pass of the loop is for candidate k; every error of a
   pass is recorded, in order; a candidate that failed has its socket
   closed (or none was created) and at least one error recorded, in every
   state from the end of its pass on; when the connector has failed every
   candidate was attempted once and no socket is open. *)
C27_FailedCandidates ==
    /\ Recorded(conn.attempts) = conn.exceptions
    /\ \A k \in DOMAIN conn.attempts :
           LET a == conn.attempts[k]
           IN  /\ a.cand = k
               /\ ~a.ok =>
                      /\ a.errors # <<>>
                      /\ conn.sockets[k] =
                             IF a.created THEN "closed" ELSE "unopened"
    /\ conn.pc = "failed" =>
           /\ Len(conn.attempts) = conn.infos
           /\ \A j \in 1..conn.infos : conn.sockets[j] # "open"

(* The connector failed after one candidate's connect failed, no socket
   could be created for another, and no local address could be bound for
   the third. *)
C27_Witness ==
    /\ conn.pc = "failed"
    /\ conn.infos = 3
    /\ \E k \in 1..3 : conn.attempts[k].connect
    /\ \E k \in 1..3 : ~conn.attempts[k].created
    /\ \E k \in 1..3 : /\ conn.attempts[k].created
                       /\ ~conn.attempts[k].connect

(* C28: when the resolver returned no address for the connector's remote
   target, for the connector's local address or for the listener's
   address, the operation has failed with the empty-list error and no
   socket was opened. *)
C28_EmptyResolution ==
    /\ conn.pc = "raised" =>
           conn.error = EmptyList /\ conn.sockets = <<>>
    /\ conn.pc \in {"failed", "connected"} /\ conn.lookups > 0
       /\ conn.infos = 0 =>
           /\ conn.pc = "failed"
           /\ conn.error = EmptyList
           /\ conn.sockets = <<>>
    /\ srv.pc \in {"failed", "serving", "closed"} /\ srv.lookups > 0
       /\ srv.infos = <<>> =>
           /\ srv.pc = "failed"
           /\ srv.error = EmptyList
           /\ srv.sockets = <<>>

(* C29: the accept callback never lets an exception escape, and when it
   has returned it made at most NUMBER_ACCEPTS accept calls, those with
   EPERM included; every call before the last returned a connection or
   raised EPERM; a would-block on the last call left nothing logged, a
   known accept error one info record, any other error one exception
   record; and a batch shorter than NUMBER_ACCEPTS was stopped by an
   error other than EPERM or by an exception after an accept. *)
C29_AcceptBatch ==
    /\ acc.pc # "escaped"
    /\ acc.pc = "returned" =>
           LET b == acc.batch
               n == Len(b)
           IN  /\ n <= NUMBER_ACCEPTS
               /\ \A k \in 1..(n - 1) : b[k] \in {0, EPERM}
               /\ n > 0 /\ b[n] \in TRY_READ_AGAIN => acc.log = <<>>
               /\ n > 0 /\ b[n] = EPERM =>
                      n = NUMBER_ACCEPTS /\ acc.log = <<>>
               /\ n > 0 /\ b[n] \in ACCEPT_ERRORS => acc.log = <<"info">>
               /\ n > 0 /\ b[n] \notin
                      (TRY_READ_AGAIN \cup ACCEPT_ERRORS \cup {0, EPERM})
                      => acc.log = <<"exception">>
               /\ n < NUMBER_ACCEPTS =>
                      /\ n > 0
                      /\ \/ b[n] \notin {0, EPERM}
                         \/ b[n] = 0 /\ acc.log = <<"exception">>

(* A batch of NUMBER_ACCEPTS calls: EPERM, then a connection, then an
   error of no known kind, which was logged. *)
C29_Witness ==
    /\ acc.pc = "returned"
    /\ acc.batch = <<EPERM, 0, 9>>
    /\ Len(acc.conns) = 1
    /\ acc.log = <<"exception">>

(* C30: every connection that accept returned is closed, or is owned by
   one transport that carries the peer address and is a TLS transport
   exactly when the listener has an ssl context. *)
C30_AcceptedOwned ==
    acc.pc = "returned" =>
        \A k \in DOMAIN acc.conns :
            \/ acc.conns[k].state = "closed"
            \/ /\ acc.conns[k].owners = 1
               /\ acc.conns[k].addr
               /\ acc.conns[k].tls = acc.ssl

(* C31: when eof_received is made, every chunk that recv returned has
   been passed to data_received before it, and so before the
   connection_lost that follows. *)
C31_NoChunkLostAtEof ==
    \A i \in Calls("eof_received") :
        \A c \in 1..nrecv :
            \E j \in Calls("data_received") : j < i /\ calls[j].chunk = c

(* C32: a plain transport on which close() was called with data queued,
   whose write handler is registered and whose writing is not paused,
   is eventually shut down with connection_lost delivered, unless
   writing is paused or the registration removed first. *)
C32_CloseCompletes ==
    (kind = "plain" /\ deferred /\ writer = "_ready_write"
     /\ ~paused_writing)
        ~> (Calls("connection_lost") # {} \/ paused_writing
            \/ writer # "_ready_write")

(* C33: whenever a handler has returned, a transport whose socket is
   open, whose handshake (if any) is complete, whose write queue is
   non-empty and whose writing is not paused has its write handler
   registered for write-readiness. *)
C33_QueuedDataHasWriter ==
    sock = "open" /\ (kind = "ssl" => hs_done) /\ write_buffer # <<>>
    /\ ~paused_writing
        => writer = "_ready_write"

(* C34: for one response at most one request is issued after the first;
   it is issued when the first answer is a 401 with a Digest challenge,
   and carries the Authorization header computed from that challenge. *)
C34_OneRetry ==
    /\ Len(http.sent) <= 2
    /\ Len(http.answers) >= 1 /\ http.answers[1].status = 401
       /\ http.answers[1].scheme = "Digest" =>
           /\ Len(http.sent) >= 2
           /\ http.sent[2] = encode(http.answers[1])

=============================================================================
